---- MODULE Spec2Model ----
(***************************************************************************)
(* Volume processing and surface reconstruction pipeline of                *)
(* 3D_reconstruction_project (backend/processing.py, backend/routes.py).   *)
(*                                                                         *)
(* The four artifact files (volume.npy, spacing.npy, segmented_volume.npy, *)
(* organ_model.stl) are singleton slots shared by every request.  Each     *)
(* POST /api/process is one run of start_processing; the WSGI server may   *)
(* serve several requests at once and the code takes no lock, so the runs  *)
(* and the GET handlers interleave at the granularity of file operations.  *)
(*                                                                         *)
(* An array is carried as its shape plus the values of a fixed list of     *)
(* probe voxels (`data`); every per-voxel operation of the code acts on a  *)
(* probe exactly as it acts on any voxel.  The probes of a decoded volume  *)
(* include a voxel of minimal and one of maximal value.                    *)
(***************************************************************************)
EXTENDS Integers, Sequences, FiniteSets, TLC

VARIABLES
    dicom,      \* content of DICOM_PATH (the input directory)
    slot,       \* the four artifact files
    pc,         \* per run: control point inside start_processing
    loc,        \* per run: the arrays held in memory
    inTry,      \* per run: generate_synthetic_volume was called inside process_dicom's try block
    calls,      \* per run: stages start_processing has called, in order
    rets,       \* per run: stages that returned True, in order
    result,     \* per run: response of start_processing
    failed,     \* per run: the stage whose exception reached start_processing
    wrote,      \* per run: last complete artifact this run persisted in each slot
    sfail,      \* per run: a storage operation of this run failed
    badResample,\* per run: resample computed a non-positive voxel count
    degenerate, \* per run: create_3d_model loaded an all-zero or all-one mask
    faults,     \* storage failures so far
    produced,   \* per slot: some write of it has completed
    fetched     \* outcome of the last GET of an artifact

vars == <<dicom, slot, pc, loc, inTry, calls, rets, result, failed, wrote, sfail,
          badResample, degenerate, faults, produced, fetched>>

\* ---------------------------------------------------------------- bounds
NumRuns == 1
MaxFaults == 2
RawSpan == 66000

\* The requests of Spec, and the requests of the model: one more, which
\* OverlapSpec and ServeSpec let overlap the others.
Requests == 1..NumRuns

Runs == 1..(NumRuns + 1)

\* ------------------------------------------------------- program constants
threshold == 200
size == 128
sentinel == -2000
int16Width == 16

Slots == {"Volume", "Spacing", "Mask", "Mesh"}
Stages == <<"process_dicom", "run_segmentation", "create_3d_model">>

\* ------------------------------------------------------------- artifacts
\* A file of a slot: absent, partial (opened for writing and truncated, the
\* write not completed) or complete.  `run` is the run that wrote it, `from`
\* the run that wrote the artifact it was computed from, `src` the probe
\* values of that input.
Art(st, run, shape, data, from, src) ==
    [st |-> st, run |-> run, shape |-> shape, data |-> data, from |-> from, src |-> src]

Absent == Art("absent", 0, <<>>, <<>>, 0, <<>>)

Partial(r) == Art("partial", r, <<>>, <<>>, 0, <<>>)

NoArray == [shape |-> <<>>, data |-> <<>>, sp |-> <<>>, from |-> 0, src |-> <<>>]

\* --------------------------------------------------------- the input directory
\* One file of DICOM_PATH: cand = a regular file named *.dcm, *.dicom or without
\* a dot; readable = sitk.ReadImage decodes it; pos = its ordering key;
\* val = the value of its probe voxel.
File(cand, readable, pos, val) ==
    [cand |-> cand, readable |-> readable, pos |-> pos, val |-> val]

\* series: "ok" (GDCM finds a series and reads it), "error" (reading raises),
\* "none" (GDCM finds no series id).  joinable: ImageSeriesReader can join the
\* individually read slices.  rows, cols and sp10 (spacing in tenths of a
\* millimetre, in (z, y, x) order) come from the slices' metadata.
Dir(exists, files, series, joinable, sp10) ==
    [exists |-> exists, files |-> files, series |-> series, joinable |-> joinable,
     rows |-> 2, cols |-> 2, sp10 |-> sp10]

Iso == <<10, 10, 10>>

DirMissing == Dir(FALSE, <<>>, "none", FALSE, Iso)

DirEmpty == Dir(TRUE, <<>>, "none", FALSE, Iso)

DirNoCandidate == Dir(TRUE, <<File(FALSE, FALSE, 0, 0)>>, "none", FALSE, Iso)

DirUndecodable ==
    Dir(TRUE, <<File(TRUE, FALSE, 0, 0), File(FALSE, FALSE, 0, 0)>>, "none", FALSE, Iso)

DirSeriesError == Dir(TRUE, <<File(TRUE, FALSE, 1, 0)>>, "error", FALSE, Iso)

NoInputDirs == {DirMissing, DirEmpty, DirNoCandidate, DirUndecodable, DirSeriesError}

Series(v1, v2, sp10) ==
    Dir(TRUE, <<File(TRUE, TRUE, 1, v1), File(TRUE, TRUE, 2, v2)>>, "ok", TRUE, sp10)

Loose(joinable) ==
    Dir(TRUE, <<File(TRUE, TRUE, 2, 300), File(TRUE, FALSE, 0, 0), File(TRUE, TRUE, 1, 0)>>,
        "none", joinable, Iso)

DecodableDirs ==
    { Series(-2000, 201, Iso),          \* sentinel and a voxel just above the threshold
      Series(199, 200, Iso),            \* every voxel at or below the threshold
      Series(201, 300, Iso),            \* every voxel above the threshold
      Series(63536, 300, Iso),          \* an unsigned 16-bit sample above 32767
      Series(0, 300, <<2, 10, 10>>),    \* 2 slices 0.2 mm apart: round(0.4) = 0
      Series(300, 300, <<20, 10, 10>>), \* 2 slices 2 mm apart: 4 slices after resampling
      Loose(TRUE), Loose(FALSE) }

DicomDirs == NoInputDirs \cup DecodableDirs

\* ------------------------------------------------------------ pure helpers
RECURSIVE GCD(_, _)
GCD(a, b) == IF b = 0 THEN a ELSE GCD(b, a % b)

\* The float n/d, kept exact: a reduced fraction <<n, d>>; <<1, 0>> is inf.
Frac(n, d) ==
    IF d = 0 THEN <<1, 0>>
    ELSE LET g == GCD(n, d) IN <<n \div g, d \div g>>

\* np.round of n/d (n >= 0, d > 0): to nearest, halves to even.
RoundHalfEven(n, d) ==
    LET q == n \div d
        rem == n % d
    IN  IF 2 * rem < d THEN q
        ELSE IF 2 * rem > d THEN q + 1
        ELSE IF q % 2 = 0 THEN q ELSE q + 1

Map(f(_), seq) == [i \in 1..Len(seq) |-> f(seq[i])]

Flatten3(p) == <<p[1][1], p[1][2], p[2][1], p[2][2], p[3][1], p[3][2]>>

\* list.sort(key=position): stable insertion by ascending position.
RECURSIVE InsertByPos(_, _)
InsertByPos(f, sorted) ==
    IF sorted = <<>> THEN <<f>>
    ELSE IF f.pos < Head(sorted).pos THEN <<f>> \o sorted
    ELSE <<Head(sorted)>> \o InsertByPos(f, Tail(sorted))

RECURSIVE SortByPos(_)
SortByPos(fs) ==
    IF fs = <<>> THEN <<>>
    ELSE InsertByPos(fs[Len(fs)], SortByPos(SubSeq(fs, 1, Len(fs) - 1)))

IsCandidate(f) == f.cand

IsReadable(f) == f.readable

ValOf(f) == f.val

\* A cast that saturates instead of wrapping.
ToInt16Saturating(v) ==
    IF v > 2^(int16Width - 1) - 1 THEN 2^(int16Width - 1) - 1
    ELSE IF v < 0 - 2^(int16Width - 1) THEN 0 - 2^(int16Width - 1)
    ELSE v

\* image_array.astype(np.int16): two's-complement wrap to 16 bits.
ToInt16(v) == ((v + 2^(int16Width - 1)) % 2^int16Width) - 2^(int16Width - 1)

\* ------------------------------------------------------- processing.py, pure parts
\* Lines 183-184: cast to int16, then the sentinel becomes 0.
Normalize(v) ==
    LET w == ToInt16(v) IN IF w = sentinel THEN 0 ELSE w

\* resample: the rounded voxel counts (line 208).
new_shape(shape, sp10) ==
    [i \in 1..3 |-> RoundHalfEven(shape[i] * sp10[i], 10)]

\* resample: original_spacing / (new_shape / volume.shape) (lines 209-210);
\* a zero count divides by zero, which numpy answers with inf and a warning.
new_spacing(shape, sp10) ==
    LET ns == new_shape(shape, sp10)
    IN  Flatten3([i \in 1..3 |-> Frac(sp10[i] * shape[i], 10 * ns[i])])

BadShape(shape) == \E i \in 1..3 : shape[i] <= 0

\* scipy.ndimage.zoom (line 211).  The probes keep their values where the zoom
\* factors are 1 (the spline interpolates its knots) and where the volume is
\* constant; every input of DicomDirs is one or the other.  An empty output
\* has no voxel.
ZoomData(data, newShape) == IF BadShape(newShape) THEN <<>> ELSE data

\* The image process_dicom decodes (lines 95-172), or "synth" where it calls
\* generate_synthetic_volume instead.
Decode(d) ==
    LET cands  == SelectSeq(d.files, IsCandidate)
        slices == SortByPos(SelectSeq(cands, IsReadable))
        joined == [kind |-> "image", shape |-> <<Len(slices), d.rows, d.cols>>,
                   sp10 |-> d.sp10, data |-> Map(ValOf, slices)]
        first  == [kind |-> "image", shape |-> <<1, d.rows, d.cols>>,
                   sp10 |-> d.sp10, data |-> <<slices[1].val>>]
        synth  == [kind |-> "synth", shape |-> <<>>, sp10 |-> <<>>, data |-> <<>>]
    IN  IF ~d.exists \/ Len(d.files) = 0 THEN synth          \* line 95
        ELSE IF cands = <<>> THEN synth                       \* line 111
        ELSE IF d.series = "error" THEN synth                 \* lines 170-172
        ELSE IF d.series = "ok" THEN joined                   \* lines 125-129
        ELSE IF slices = <<>> THEN synth                      \* line 152
        ELSE IF d.joinable THEN joined                        \* line 164
        ELSE first                                            \* line 169

\* generate_synthetic_volume (lines 34-73): background, central sphere, shell
\* and small sphere, each probe with the noise drawn for it.
NoiseVals == {-10, 10}

\* The cube built with half the side.
synthetic_volume_half_size(n) ==
    [shape |-> <<size \div 2, size \div 2, size \div 2>>,
     data |-> <<0 + n, 50 + n, 800 + n, 100 + n>>,
     sp |-> <<1, 1, 1, 1, 1, 1>>, from |-> 0, src |-> <<>>]

synthetic_volume(n) ==
    [shape |-> <<size, size, size>>, data |-> <<0 + n, 50 + n, 800 + n, 100 + n>>,
     sp |-> <<1, 1, 1, 1, 1, 1>>, from |-> 0, src |-> <<>>]

\* The comparison made non-strict.
AtOrAbove(v) == IF v >= threshold THEN 1 ELSE 0

\* run_segmentation, line 230.
Above(v) == IF v > threshold THEN 1 ELSE 0

segmented_volume(data) == Map(Above, data)

\* skimage.measure.marching_cubes(volume, level=0.5) raises ValueError when a
\* side has fewer than 2 voxels or when the level lies outside
\* [volume.min(), volume.max()], i.e. when the mask is all 0 or all 1.
AllEqual(data, v) == \A i \in 1..Len(data) : data[i] = v

Degenerate(data) == AllEqual(data, 0) \/ AllEqual(data, 1)

MarchingCubesRaises(shape, data) ==
    \/ \E i \in 1..3 : shape[i] < 2
    \/ Degenerate(data)

\* The faces marching cubes emits: the model counts the neighbouring probes
\* between which the mask crosses 0.5.
Faces(data) == Cardinality({i \in 1..(Len(data) - 1) : data[i] # data[i + 1]})

\* ----------------------------------------------------- routes.py, start_processing
\* start_processing with the call of run_segmentation left out.
StageAfterSkipping(stage) ==
    IF stage = "process_dicom" THEN "create_3d_model" ELSE "return"

\* Lines 107-117: what start_processing does after a stage returned.
StageAfter(stage) ==
    IF stage = "process_dicom" THEN "run_segmentation"
    ELSE IF stage = "run_segmentation" THEN "create_3d_model"
    ELSE "return"

EntryPc(stage) ==
    IF stage = "process_dicom" THEN "pd_enter"
    ELSE IF stage = "run_segmentation" THEN "seg_load"
    ELSE "mc_load"

\* Where an exception raised at `where` is caught: "synth" = process_dicom's
\* handler, which calls generate_synthetic_volume (lines 199-203); "raise" = it
\* reaches start_processing (lines 82-84, 237-239, 270-272, then 118-120).
\* An exception of generate_synthetic_volume is caught by process_dicom only
\* when the call was made inside its try block (lines 97, 113, 154, 172).
Handler(where, tryFlag) ==
    IF where = "pd" THEN "synth"
    ELSE IF where = "gs" /\ tryFlag THEN "synth"
    ELSE "raise"

StageOf(where) ==
    IF where \in {"pd", "gs"} THEN "process_dicom"
    ELSE IF where = "seg" THEN "run_segmentation"
    ELSE "create_3d_model"

SetCtl(r, p, t, c, rt, res, f) ==
    /\ pc' = [pc EXCEPT ![r] = p]
    /\ inTry' = [inTry EXCEPT ![r] = t]
    /\ calls' = [calls EXCEPT ![r] = c]
    /\ rets' = [rets EXCEPT ![r] = rt]
    /\ result' = [result EXCEPT ![r] = res]
    /\ failed' = [failed EXCEPT ![r] = f]

Goto(r, p) == SetCtl(r, p, inTry[r], calls[r], rets[r], result[r], failed[r])

\* An exception at `where` in run r.
Except(r, where) ==
    IF Handler(where, inTry[r]) = "synth"
    THEN SetCtl(r, "gs_build", FALSE, calls[r], rets[r], result[r], failed[r])
    ELSE SetCtl(r, "done", inTry[r], calls[r], rets[r], "error", StageOf(where))

\* A stage returns True to start_processing.
Return(r, stage) ==
    LET nxt == StageAfter(stage)
    IN  IF nxt = "return"
        THEN SetCtl(r, "done", inTry[r], calls[r], Append(rets[r], stage), "success", failed[r])
        ELSE SetCtl(r, EntryPc(nxt), inTry[r], Append(calls[r], nxt),
                    Append(rets[r], stage), result[r], failed[r])

Fault(r) ==
    /\ faults < MaxFaults
    /\ faults' = faults + 1
    /\ sfail' = [sfail EXCEPT ![r] = TRUE]

\* np.save / Mesh.save open the file with mode "wb": the file exists and is
\* empty from then on.  The open itself may fail and leave the file alone.
OpenStep(r, at, s, where, nxt) ==
    /\ pc[r] = at
    /\ \/ /\ slot' = [slot EXCEPT ![s] = Partial(r)]
          /\ Goto(r, nxt)
          /\ UNCHANGED <<faults, sfail>>
       \/ /\ Fault(r)
          /\ Except(r, where)
          /\ UNCHANGED slot
    /\ UNCHANGED <<dicom, loc, wrote, badResample, degenerate, produced, fetched>>

\* The write completes, or fails mid-way and leaves the truncated file.
\* ret = "none": the stage goes on to nxt; otherwise the stage ret returns.
WriteStep(r, at, s, where, art, nxt, ret) ==
    /\ pc[r] = at
    /\ \/ /\ slot' = [slot EXCEPT ![s] = art]
          /\ wrote' = [wrote EXCEPT ![r][s] = art]
          /\ produced' = [produced EXCEPT ![s] = TRUE]
          /\ IF ret = "none" THEN Goto(r, nxt) ELSE Return(r, ret)
          /\ UNCHANGED <<faults, sfail>>
       \/ /\ Fault(r)
          /\ Except(r, where)
          /\ UNCHANGED <<slot, wrote, produced>>
    /\ UNCHANGED <<dicom, loc, badResample, degenerate, fetched>>

VolumeArt(r) == Art("complete", r, loc[r].shape, loc[r].data, loc[r].from, loc[r].src)

SpacingArt(r) == Art("complete", r, <<3>>, loc[r].sp, 0, <<>>)

MeshArt(r) == Art("complete", r, <<>>, <<Faces(loc[r].data)>>, loc[r].from, loc[r].src)

\* ------------------------------------------------------------------ actions
\* POST /api/process: start_processing calls process_dicom (line 109).
start_processing(r) ==
    /\ pc[r] = "idle"
    /\ SetCtl(r, EntryPc(Stages[1]), inTry[r], <<Stages[1]>>, rets[r], result[r], failed[r])
    /\ UNCHANGED <<dicom, slot, loc, wrote, sfail, badResample, degenerate, faults,
                   produced, fetched>>

\* process_dicom, lines 93-190: decode, normalize, resample.
process_dicom_decode(r) ==
    /\ pc[r] = "pd_enter"
    /\ LET img == Decode(dicom)
           hu  == Map(Normalize, img.data)
           ns  == new_shape(img.shape, img.sp10)
       IN  IF img.kind = "synth"
           THEN /\ SetCtl(r, "gs_build", TRUE, calls[r], rets[r], result[r], failed[r])
                /\ UNCHANGED <<loc, badResample>>
           ELSE IF BadShape(ns)
           THEN /\ badResample' = [badResample EXCEPT ![r] = TRUE]
                \* zoom to an empty shape: depending on the scipy build it raises
                \* or returns the empty array.
                /\ \/ /\ Except(r, "pd")
                      /\ UNCHANGED loc
                   \/ /\ loc' = [loc EXCEPT ![r] =
                                    [shape |-> ns, data |-> ZoomData(hu, ns),
                                     sp |-> new_spacing(img.shape, img.sp10),
                                     from |-> 0, src |-> <<>>]]
                      /\ Goto(r, "pd_open_vol")
           ELSE /\ loc' = [loc EXCEPT ![r] =
                              [shape |-> ns, data |-> ZoomData(hu, ns),
                               sp |-> new_spacing(img.shape, img.sp10),
                               from |-> 0, src |-> <<>>]]
                /\ Goto(r, "pd_open_vol")
                /\ UNCHANGED badResample
    /\ UNCHANGED <<dicom, slot, wrote, sfail, degenerate, faults, produced, fetched>>

\* process_dicom, lines 193-198.
process_dicom_open_volume(r) == OpenStep(r, "pd_open_vol", "Volume", "pd", "pd_write_vol")

process_dicom_write_volume(r) ==
    WriteStep(r, "pd_write_vol", "Volume", "pd", VolumeArt(r), "pd_open_sp", "none")

process_dicom_open_spacing(r) == OpenStep(r, "pd_open_sp", "Spacing", "pd", "pd_write_sp")

process_dicom_write_spacing(r) ==
    WriteStep(r, "pd_write_sp", "Spacing", "pd", SpacingArt(r), "", "process_dicom")

\* generate_synthetic_volume, lines 34-73.
generate_synthetic_volume_build(r) ==
    /\ pc[r] = "gs_build"
    /\ \E n \in NoiseVals : loc' = [loc EXCEPT ![r] = synthetic_volume(n)]
    /\ Goto(r, "gs_open_vol")
    /\ UNCHANGED <<dicom, slot, wrote, sfail, badResample, degenerate, faults,
                   produced, fetched>>

\* generate_synthetic_volume, lines 76-81.
generate_synthetic_volume_open_volume(r) == OpenStep(r, "gs_open_vol", "Volume", "gs", "gs_write_vol")

generate_synthetic_volume_write_volume(r) ==
    WriteStep(r, "gs_write_vol", "Volume", "gs", VolumeArt(r), "gs_open_sp", "none")

generate_synthetic_volume_open_spacing(r) == OpenStep(r, "gs_open_sp", "Spacing", "gs", "gs_write_sp")

generate_synthetic_volume_write_spacing(r) ==
    WriteStep(r, "gs_write_sp", "Spacing", "gs", SpacingArt(r), "", "process_dicom")

\* run_segmentation, lines 224-230: np.load raises on a missing or truncated file.
run_segmentation_load(r) ==
    /\ pc[r] = "seg_load"
    /\ LET v == slot["Volume"]
       IN  IF v.st = "complete"
           THEN /\ loc' = [loc EXCEPT ![r] =
                              [shape |-> v.shape, data |-> segmented_volume(v.data),
                               sp |-> <<>>, from |-> v.run, src |-> v.data]]
                /\ Goto(r, "seg_open")
           ELSE /\ Except(r, "seg")
                /\ UNCHANGED loc
    /\ UNCHANGED <<dicom, slot, wrote, sfail, badResample, degenerate, faults,
                   produced, fetched>>

\* run_segmentation, lines 233-236.
run_segmentation_open(r) == OpenStep(r, "seg_open", "Mask", "seg", "seg_write")

run_segmentation_write(r) ==
    WriteStep(r, "seg_write", "Mask", "seg", VolumeArt(r), "", "run_segmentation")

\* create_3d_model, lines 250-265: existence test, np.load, transpose,
\* marching cubes, mesh construction.
create_3d_model_load(r) ==
    /\ pc[r] = "mc_load"
    /\ LET m == slot["Mask"]
           t == [i \in 1..3 |-> m.shape[4 - i]]
       IN  IF m.st # "complete"
           THEN /\ Except(r, "mc")
                /\ UNCHANGED <<loc, degenerate>>
           ELSE /\ degenerate' = [degenerate EXCEPT ![r] = Degenerate(m.data)]
                /\ IF MarchingCubesRaises(t, m.data)
                   THEN /\ Except(r, "mc")
                        /\ UNCHANGED loc
                   ELSE /\ loc' = [loc EXCEPT ![r] =
                                      [shape |-> t, data |-> m.data, sp |-> <<>>,
                                       from |-> m.run, src |-> m.data]]
                        /\ Goto(r, "mc_open")
    /\ UNCHANGED <<dicom, slot, wrote, sfail, badResample, faults, produced, fetched>>

\* create_3d_model, lines 266-269.
create_3d_model_open(r) == OpenStep(r, "mc_open", "Mesh", "mc", "mc_write")

create_3d_model_write(r) ==
    WriteStep(r, "mc_write", "Mesh", "mc", MeshArt(r), "", "create_3d_model")

\* serve_model / serve_volume / serve_segmented_volume: 404 when the file does
\* not exist, otherwise the file as it is on disk.
NoFetch == [slot |-> "none", status |-> 0, complete |-> FALSE, produced |-> FALSE]

ServeStatus(a) == IF a.st = "absent" THEN 404 ELSE 200

serve(s) ==
    /\ fetched' = [slot |-> s, status |-> ServeStatus(slot[s]),
                   complete |-> (slot[s].st = "complete"), produced |-> produced[s]]
    /\ UNCHANGED <<dicom, slot, pc, loc, inTry, calls, rets, result, failed, wrote,
                   sfail, badResample, degenerate, faults, produced>>

Fetchable == {"Volume", "Mask", "Mesh"}

\* No artifact exists before the first run; no request is in progress.
Fresh ==
    /\ slot = [s \in Slots |-> Absent]
    /\ pc = [r \in Runs |-> "idle"]
    /\ loc = [r \in Runs |-> NoArray]
    /\ inTry = [r \in Runs |-> FALSE]
    /\ calls = [r \in Runs |-> <<>>]
    /\ rets = [r \in Runs |-> <<>>]
    /\ result = [r \in Runs |-> "none"]
    /\ failed = [r \in Runs |-> "none"]
    /\ wrote = [r \in Runs |-> [s \in Slots |-> Absent]]
    /\ sfail = [r \in Runs |-> FALSE]
    /\ badResample = [r \in Runs |-> FALSE]
    /\ degenerate = [r \in Runs |-> FALSE]
    /\ faults = 0
    /\ produced = [s \in Slots |-> FALSE]
    /\ fetched = NoFetch

Init == dicom \in DicomDirs /\ Fresh

\* One step of request r.
Step(r) ==
    \/ start_processing(r)
    \/ process_dicom_decode(r)
    \/ process_dicom_open_volume(r)
    \/ process_dicom_write_volume(r)
    \/ process_dicom_open_spacing(r)
    \/ process_dicom_write_spacing(r)
    \/ generate_synthetic_volume_build(r)
    \/ generate_synthetic_volume_open_volume(r)
    \/ generate_synthetic_volume_write_volume(r)
    \/ generate_synthetic_volume_open_spacing(r)
    \/ generate_synthetic_volume_write_spacing(r)
    \/ run_segmentation_load(r)
    \/ run_segmentation_open(r)
    \/ run_segmentation_write(r)
    \/ create_3d_model_load(r)
    \/ create_3d_model_open(r)
    \/ create_3d_model_write(r)

Next == \E r \in Requests : Step(r)

\* NumRuns requests, overlapping freely.
Spec == Init /\ [][Next]_vars

NextOverlap == \E r \in Runs : Step(r)

\* All requests of the model, overlapping freely.
OverlapSpec == Init /\ [][NextOverlap]_vars

\* The pipeline requests together with the GET handlers, on two inputs.
ServeDirs == {DirEmpty, Loose(TRUE)}

InitServe == dicom \in ServeDirs /\ Fresh

NextServe ==
    \/ NextOverlap
    \/ \E s \in Fetchable : serve(s)

ServeSpec == InitServe /\ [][NextServe]_vars

\* One request, from process_dicom to the end of run_segmentation, on decoded
\* volumes whose voxels lie around the threshold.
SegSamples == {-2000, 0, 199, 200, 201, 300}

SegDirs == {Series(v, w, Iso) : v, w \in SegSamples}

InitSeg == dicom \in SegDirs /\ Fresh

NextSeg ==
    \/ start_processing(1)
    \/ process_dicom_decode(1)
    \/ process_dicom_open_volume(1)
    \/ process_dicom_write_volume(1)
    \/ process_dicom_open_spacing(1)
    \/ process_dicom_write_spacing(1)
    \/ generate_synthetic_volume_build(1)
    \/ generate_synthetic_volume_open_volume(1)
    \/ generate_synthetic_volume_write_volume(1)
    \/ generate_synthetic_volume_open_spacing(1)
    \/ generate_synthetic_volume_write_spacing(1)
    \/ run_segmentation_load(1)
    \/ run_segmentation_open(1)
    \/ run_segmentation_write(1)

SegSpec == InitSeg /\ [][NextSeg]_vars

\* One request decoding a slice whose probe holds any raw sample value.
RawSamples == (0 - RawSpan)..RawSpan

NormDirs == {Series(v, 0, Iso) : v \in RawSamples}

InitNorm == dicom \in NormDirs /\ Fresh

NextNorm ==
    \/ start_processing(1)
    \/ process_dicom_decode(1)

NormSpec == InitNorm /\ [][NextNorm]_vars

\* ================================================================ claims
IsPrefix(a, b) == Len(a) <= Len(b) /\ SubSeq(b, 1, Len(a)) = a

FrontOf(seq) == SubSeq(seq, 1, Len(seq) - 1)

StageOrderInv ==
    \A r \in Runs :
        /\ IsPrefix(calls[r], Stages)
        /\ IsPrefix(rets[r], calls[r])
        /\ Len(calls[r]) <= Len(rets[r]) + 1
        /\ (result[r] = "none" /\ pc[r] # "idle") => Len(calls[r]) = Len(rets[r]) + 1
        /\ (result[r] = "success") =>
               /\ rets[r] = Stages
               /\ failed[r] = "none"
               /\ \A s \in Slots : wrote[r][s].st = "complete"
        /\ (result[r] = "error") <=> (failed[r] # "none")
        /\ (failed[r] # "none") =>
               /\ pc[r] = "done"
               /\ calls[r] # <<>>
               /\ failed[r] = calls[r][Len(calls[r])]
               /\ rets[r] = FrontOf(calls[r])

StageOrderStep ==
    \A r \in Runs :
        /\ calls'[r] # calls[r] =>
               /\ Len(calls'[r]) = Len(calls[r]) + 1
               /\ FrontOf(calls'[r]) = calls[r]
               /\ rets'[r] = calls[r]
        /\ result[r] # "none" =>
               /\ calls'[r] = calls[r]
               /\ rets'[r] = rets[r]
               /\ result'[r] = result[r]
               /\ wrote'[r] = wrote[r]
               /\ \A s \in Slots : slot'[s] # slot[s] => slot'[s].run # r

\* C1: within one invocation of start_processing the stages are called in the
\* order process_dicom, run_segmentation, create_3d_model, each at most once
\* and each only after the one before it returned; once a stage has raised,
\* the invocation is over with the answer "error", calls no further stage and
\* writes nothing more; the answer is "success" only after all three stages
\* returned.
C1_StagesInOrder == [](StageOrderInv) /\ [][StageOrderStep]_vars

\* C1 witness: an invocation failed in run_segmentation after process_dicom
\* had returned, and has the answer "error".
C1_Witness ==
    \E r \in Runs :
        /\ failed[r] = "run_segmentation"
        /\ calls[r] = <<"process_dicom", "run_segmentation">>
        /\ rets[r] = <<"process_dicom">>
        /\ result[r] = "error"

\* C2: the mask in the Mask slot was computed from a volume written by the same
\* run, and the mesh in the Mesh slot from a mask written by the same run.
C2_NoForeignArtifact ==
    /\ slot["Mask"].st = "complete" => slot["Mask"].from = slot["Mask"].run
    /\ slot["Mesh"].st = "complete" => slot["Mesh"].from = slot["Mesh"].run

\* C3: no slot ever holds a partially written file, and no GET answers with one.
C3_NoPartialArtifact ==
    /\ \A s \in Slots : slot[s].st \in {"absent", "complete"}
    /\ fetched.status = 200 => fetched.complete

SlotsFrom(stage) ==
    IF stage = "process_dicom" THEN Slots
    ELSE IF stage = "run_segmentation" THEN {"Mask", "Mesh"}
    ELSE {"Mesh"}

\* C4: after an invocation failed in a stage, the slots of that stage and of the
\* later stages do not hold anything this invocation wrote.
C4_FailedStageLeavesSlots ==
    \A r \in Runs :
        failed[r] # "none" => \A s \in SlotsFrom(failed[r]) : slot[s].run # r

\* The directory does not exist, is empty, holds no candidate file, or holds no
\* candidate file that can be decoded.
NoInput(d) ==
    \/ ~d.exists
    \/ \A i \in 1..Len(d.files) : ~(d.files[i].cand /\ d.files[i].readable)

\* C5: with no usable input, process_dicom raises only after a storage failure
\* of its own, and when it returned it had persisted a volume of shape
\* (128, 128, 128) and the spacing (1.0, 1.0, 1.0).
C5_NoInputFallsBack ==
    NoInput(dicom) =>
        \A r \in Runs :
            /\ failed[r] = "process_dicom" => sfail[r]
            /\ Len(rets[r]) >= 1 =>
                   /\ wrote[r]["Volume"].st = "complete"
                   /\ wrote[r]["Volume"].shape = <<128, 128, 128>>
                   /\ wrote[r]["Spacing"].st = "complete"
                   /\ wrote[r]["Spacing"].data = <<1, 1, 1, 1, 1, 1>>

\* C5 witness: no usable input, process_dicom returned although its first
\* attempt to persist the synthetic volume failed.
C5_Witness ==
    /\ NoInput(dicom)
    /\ \E r \in Runs :
           /\ Len(rets[r]) >= 1
           /\ sfail[r]
           /\ wrote[r]["Volume"].shape = <<128, 128, 128>>

\* C6: a GET answers 404 exactly when no write of the artifact had completed.
C6_NotPresentUntilProduced ==
    fetched.slot # "none" => (fetched.status = 404 <=> ~fetched.produced)

\* C7: the persisted mask has the shape of the volume, holds only 0 and 1, and
\* holds 1 exactly where the volume is strictly greater than 200.
C7_MaskIsThreshold ==
    LET v == slot["Volume"]
        m == slot["Mask"]
    IN  m.st = "complete" =>
            /\ v.st = "complete"
            /\ m.shape = v.shape
            /\ Len(m.data) = Len(v.data)
            /\ \A i \in 1..Len(m.data) :
                   /\ m.data[i] \in {0, 1}
                   /\ m.data[i] = 1 <=> v.data[i] > 200

\* C7 witness: a persisted mask of a volume with a voxel equal to the threshold
\* and a voxel just above it.
C7_Witness ==
    /\ slot["Mask"].st = "complete"
    /\ slot["Volume"].data = <<200, 201>>
    /\ slot["Mask"].data = <<0, 1>>

\* C8: a run whose create_3d_model loaded an all-zero or all-one mask ends,
\* storage permitting, with "success" and a persisted mesh of zero faces.
C8_DegenerateMaskEmptyMesh ==
    \A r \in Runs :
        (degenerate[r] /\ pc[r] = "done" /\ ~sfail[r]) =>
            /\ result[r] = "success"
            /\ wrote[r]["Mesh"].data = <<0>>

\* C9: a run whose resampling computed a non-positive voxel count has failed in
\* process_dicom: it is over with the answer "error" and has persisted no volume.
C9_BadResampleIsFatal ==
    \A r \in Runs :
        badResample[r] =>
            /\ pc[r] = "done"
            /\ result[r] = "error"
            /\ failed[r] = "process_dicom"
            /\ wrote[r]["Volume"] = Absent

RawOf == dicom.files[1].val

\* C10 as stated: the normalized value is 0 for the raw value -2000 and the raw
\* value itself otherwise, for every raw value.
C10_OnlySentinelChanges ==
    pc[1] = "pd_open_vol" =>
        loc[1].data[1] = (IF RawOf = -2000 THEN 0 ELSE RawOf)

\* C10 amended: the normalized value lies in the signed 16-bit range; it is 0
\* when the raw value is congruent to -2000 modulo 2^16 and otherwise the value
\* congruent to the raw value modulo 2^16; so a raw value inside the signed
\* 16-bit range other than -2000 is kept.
C10_SentinelAfterWrap ==
    pc[1] = "pd_open_vol" =>
        LET out == loc[1].data[1]
        IN  /\ out \in -32768..32767
            /\ IF (RawOf + 2000) % 65536 = 0
               THEN out = 0
               ELSE (out - RawOf) % 65536 = 0
            /\ (RawOf \in -32768..32767 /\ RawOf # -2000) => out = RawOf

\* C10 witness: the unsigned sample 63536 has been normalized to 0.
C10_Witness ==
    /\ pc[1] = "pd_open_vol"
    /\ RawOf = 63536
    /\ loc[1].data[1] = 0

====
